---- MODULE Spec2Model ----
(***************************************************************************)
(* Model of the enaa bytecode virtual machine (src/src/vm.rs), its         *)
(* pseudo-assembler (src/src/asm.rs) and the built-in DECRYPTER program    *)
(* (src/src/main.rs).                                                      *)
(*                                                                         *)
(* A 32-bit word is the pair <<hi, lo>> of its 16-bit halves, so that the  *)
(* whole range 0 .. 2^32-1 and the behaviour at the word boundary are      *)
(* represented exactly.  Characters are their code points.  The program    *)
(* counter is the 0-based byte offset of the source; sequences are 1-based,*)
(* so the byte at offset i of p is p[i + 1].                               *)
(***************************************************************************)
EXTENDS Integers, Sequences, FiniteSets

VARIABLES
    source,           \* asm.rs: the &[Insn] handed to assemble
    asm,              \* asm.rs: what assemble returned (tag "None" before the call)
    pretty,           \* asm.rs: what pretty_print returned (tag "None" before the call)
    program,          \* Vm.program
    input,            \* the &str the input_chars iterator walks
    ipos,             \* Vm.input_chars: number of characters already consumed
    output,           \* Vm.output
    pc,               \* Vm.pc
    stack,            \* Vm.stack
    aux,              \* Vm.aux
    result,           \* what run returned: Running, Ok(text), Err(cause), or a panic
    overflow_checks,  \* build profile: TRUE traps integer overflow (debug), FALSE wraps
    n_in,             \* history: number of In executed, saturating at Len(input) + 2
    steps             \* history: number of loop iterations started, at most MaxSteps

vars == <<source, asm, pretty, program, input, ipos, output, pc, stack, aux, result,
          overflow_checks, n_in, steps>>

\* ------------------------------------------------------------------ bounds

MaxByte == 15
MaxInputLen == 2
MaxStack == 4
MaxOutput == 26
MaxSteps == 600
MaxInsns == 2
PadInsns == 128
MaxTextLen == 2
LongText == 22
MaxPrintInsns == 2

\* ------------------------------------------------------------- 32-bit words

Limb == 2 ^ 16

\* a small integer as a u32 (`x as u32`)
W(n) == <<n \div Limb, n % Limb>>

\* u32 comparison operators
\* the `<` of i32 on the same bits
WLt_signed(x, y) ==
    IF (x[1] >= Limb \div 2) # (y[1] >= Limb \div 2) THEN x[1] >= Limb \div 2
    ELSE x[1] < y[1] \/ (x[1] = y[1] /\ x[2] < y[2])
WLt(x, y) == x[1] < y[1] \/ (x[1] = y[1] /\ x[2] < y[2])
\* a `<=` written as `<`
WLe_strict(x, y) == WLt(x, y)
WLe(x, y) == x = y \/ WLt(x, y)
\* a `>` written as `>=`
WGt_or_equal(x, y) == ~WLt(x, y)
WGt(x, y) == WLt(y, x)

\* u32 `+`: the mathematical sum exceeds u32::MAX
AddOverflows(x, y) == x[1] + y[1] + ((x[2] + y[2]) \div Limb) >= Limb
\* u32 `+` when it does not trap: the sum modulo 2^32
WrappingAdd(x, y) ==
    <<(x[1] + y[1] + ((x[2] + y[2]) \div Limb)) % Limb, (x[2] + y[2]) % Limb>>

\* u32 `-`: the mathematical difference is negative
SubOverflows(x, y) == WLt(x, y)
\* u32 `-` when it does not trap: the difference modulo 2^32
WrappingSub(x, y) ==
    LET borrow == IF x[2] < y[2] THEN 1 ELSE 0
    IN  <<(x[1] - y[1] - borrow + Limb) % Limb, (x[2] - y[2] + Limb) % Limb>>

\* a range check that forgets the surrogates
IsBelowMax(w) == w[1] <= 16
\* char::from_u32(w).is_some(): a Unicode scalar value
IsScalar(w) == w[1] <= 16 /\ ~(w[1] = 0 /\ w[2] >= 55296 /\ w[2] <= 57343)
\* the char char::from_u32 yields, as its code point
CodePoint(w) == w[1] * Limb + w[2]

\* ------------------------------------------------------------------ opcodes

In == 0
Out == 1
Dup == 2
Add == 3
Sub == 4
Bne == 5
Blt == 6
Exit == 7
Push == 8
Jmp == 9
Beq == 10
Pusha == 11
Popa == 12
Bgt == 13
Ble == 14

\* a decoder whose default arm answers Exit
try_from_default_exit(value) ==
    [tag |-> "Ok", opcode |-> IF value \in 0 .. 14 THEN value ELSE 7]
\* impl TryFrom<u8> for Opcode: Ok for the fifteen declared values
try_from(value) ==
    IF value \in 0 .. 14
    THEN [tag |-> "Ok", opcode |-> value]
    ELSE [tag |-> "Err", cause |-> "invalid opcode"]

\* ---------------------------------------------------------------- assembler

\* Option<T>: None is <<>>, Some(x) is <<x>>
None == <<>>
Some(x) == <<x>>

\* Insn::new
Insn_new(opcode) == [label |-> None, opcode |-> opcode, operand |-> [kind |-> "None"]]
\* Insn::set_label
set_label(insn, label) == [insn EXCEPT !.label = Some(label)]
\* Insn::set_value
set_value(insn, value) == [insn EXCEPT !.operand = [kind |-> "Value", value |-> value]]
\* Insn::set_target
set_target(insn, label) == [insn EXCEPT !.operand = [kind |-> "Target", label |-> label]]

\* `x as u8` for an unsigned x: the low eight bits
as_u8(x) == x % 256

\* HashMap::new, HashMap::insert (an existing key is overwritten), HashMap::get
HashMap_new == [k \in {} |-> 0]
insert(m, k, v) == [x \in (DOMAIN m) \cup {k} |-> IF x = k THEN v ELSE m[x]]
\* a lookup that answers offset 0 for a label that is not in the table
get_or_zero(m, k) == IF k \in DOMAIN m THEN Some(m[k]) ELSE Some(0)
get(m, k) == IF k \in DOMAIN m THEN Some(m[k]) ELSE None

\* one iteration of assemble's first loop; st holds the three locals
emit_insn(st, insn) ==
    LET labels1 == IF insn.label # None
                   THEN insert(st.labels, insn.label[1], Len(st.bytecodes))
                   ELSE st.labels
        bytes1 == Append(st.bytecodes, insn.opcode)
    IN  CASE insn.operand.kind = "None" ->
               [labels |-> labels1, relocations |-> st.relocations, bytecodes |-> bytes1]
          [] insn.operand.kind = "Target" ->
               [labels |-> labels1,
                relocations |-> Append(st.relocations, <<insn.operand.label, Len(bytes1)>>),
                bytecodes |-> Append(bytes1, 0)]
          [] insn.operand.kind = "Value" ->
               [labels |-> labels1, relocations |-> st.relocations,
                bytecodes |-> Append(bytes1, as_u8(insn.operand.value))]

\* assemble's first loop over instructions lo .. hi of src, in program order.
\* The range is halved, and the locals after the first half are computed (the
\* test on their length) before the second half starts, so that a long
\* program is evaluated iteration after iteration as the loop does.
RECURSIVE emit_range(_, _, _, _)
emit_range(src, lo, hi, st) ==
    IF lo > hi THEN st
    ELSE IF lo = hi THEN emit_insn(st, src[lo])
    ELSE LET mid == (lo + hi) \div 2
             done == emit_range(src, lo, mid, st)
         IN  IF Len(done.bytecodes) >= mid - lo + 1
             THEN emit_range(src, mid + 1, hi, done)
             ELSE done

\* assemble's second loop from relocation i on: the first label that is not
\* in the table ends the call with the error, the bytes are dropped
RECURSIVE relocate_from(_, _, _, _)
relocate_from(labels, relocations, i, bytecodes) ==
    IF i > Len(relocations)
    THEN [tag |-> "Ok", bytes |-> bytecodes]
    ELSE LET label == relocations[i][1]
             offset == relocations[i][2]
             found == get(labels, label)
         IN  IF found = None
             THEN [tag |-> "Err", cause |-> "look up label"]
             ELSE relocate_from(labels, relocations, i + 1,
                                [bytecodes EXCEPT ![offset + 1] = as_u8(found[1])])

\* assemble
assemble(src) ==
    LET st == emit_range(src, 1, Len(src),
                         [labels |-> HashMap_new, relocations |-> <<>>, bytecodes |-> <<>>])
    IN  relocate_from(st.labels, st.relocations, 1, st.bytecodes)

\* #[derive(Debug)] on Opcode: `{:?}` writes the name of the variant
fmt_Debug(opcode) ==
    << "In", "Out", "Dup", "Add", "Sub", "Bne", "Blt", "Exit", "Push", "Jmp",
       "Beq", "Pusha", "Popa", "Bgt", "Ble" >>[opcode + 1]

\* the characters '0' .. '9'
Digits == << "0", "1", "2", "3", "4", "5", "6", "7", "8", "9" >>

\* the digits in the order a division loop extracts them (lowest first)
RECURSIVE to_decimal_reversed(_)
to_decimal_reversed(n) ==
    IF n < Len(Digits) THEN << Digits[n + 1] >>
    ELSE << Digits[(n % Len(Digits)) + 1] >> \o to_decimal_reversed(n \div Len(Digits))
\* `{}` on a u32: its decimal digits, highest first, no leading zero
RECURSIVE to_decimal(_)
to_decimal(n) ==
    IF n < Len(Digits) THEN << Digits[n + 1] >>
    ELSE to_decimal(n \div Len(Digits)) \o << Digits[(n % Len(Digits)) + 1] >>

\* the body of pretty_print's loop.  A String is the sequence of the pieces
\* pushed onto it: single characters, digits, and names kept whole
print_insn(out, insn) ==
    LET labelled == IF insn.label # None
                    THEN out \o << insn.label[1], ":", "\t" >>
                    ELSE out \o << "\t" >>
        named == labelled \o << fmt_Debug(insn.opcode) >>
        withOperand ==
            CASE insn.operand.kind = "None" -> named
              [] insn.operand.kind = "Target" -> named \o << " ", insn.operand.label >>
              [] insn.operand.kind = "Value" ->
                     named \o << " " >> \o to_decimal(insn.operand.value)
    IN  withOperand \o << "\n" >>

\* pretty_print's loop from instruction i on
RECURSIVE print_from(_, _, _)
print_from(src, i, out) ==
    IF i > Len(src) THEN out
    ELSE print_from(src, i + 1, print_insn(out, src[i]))

\* pretty_print
pretty_print(src) == [tag |-> "Ok", text |-> print_from(src, 1, <<>>)]

\* main.rs: the built-in program
DECRYPTER == <<
    set_value(Insn_new(Push), 4),
    Insn_new(Popa),
    set_label(Insn_new(In), "loop"),
    Insn_new(Dup),
    set_target(Insn_new(Bne), "decode"),
    Insn_new(Exit),
    set_label(Insn_new(Pusha), "decode"),
    Insn_new(Add),
    Insn_new(Dup),
    set_value(Insn_new(Push), 122),
    set_target(Insn_new(Ble), "out"),
    set_value(Insn_new(Push), 26),
    Insn_new(Sub),
    set_label(Insn_new(Out), "out"),
    Insn_new(Pusha),
    set_value(Insn_new(Push), 1),
    Insn_new(Add),
    Insn_new(Dup),
    set_value(Insn_new(Push), 25),
    set_target(Insn_new(Bgt), "wrap"),
    Insn_new(Popa),
    set_target(Insn_new(Jmp), "loop"),
    set_label(set_value(Insn_new(Push), 0), "wrap"),
    Insn_new(Popa),
    set_target(Insn_new(Jmp), "loop") >>

\* --------------------------------------------------- assembler: the runs checked

NotStarted == [tag |-> "NotStarted"]
Running == [tag |-> "Running"]
NotAssembled == [tag |-> "None"]
NotPrinted == [tag |-> "None"]

\* the symbolic programs assemble is applied to: every sequence of at most
\* MaxInsns instructions over AsmInsns, alone and after PadInsns two-byte
\* instructions (which puts its labels at offsets 256 and above)
AsmLabels == {"a", "b"}
AsmOperands == {[kind |-> "None"], [kind |-> "Value", value |-> 4]}
                   \cup {[kind |-> "Target", label |-> l] : l \in AsmLabels}
AsmInsns == [label : {None} \cup {Some(l) : l \in AsmLabels},
             opcode : {Exit, Jmp},
             operand : AsmOperands]
Pad(n) == [i \in 1 .. n |-> set_value(Insn_new(Push), 0)]
Sources == {Pad(n) \o s : n \in {0, PadInsns},
                          s \in UNION {[1 .. k -> AsmInsns] : k \in 0 .. MaxInsns}}

\* the interpreter's variables before Vm::new
VmIdle ==
    /\ program = <<>> /\ ipos = 0 /\ output = <<>> /\ pc = 0 /\ stack = <<>>
    /\ aux = W(0) /\ result = NotStarted /\ n_in = 0 /\ steps = 0

InitAsm ==
    /\ source \in Sources
    /\ asm = NotAssembled
    /\ pretty = NotPrinted
    /\ input = <<>>
    /\ overflow_checks \in {FALSE}
    /\ VmIdle

\* a call of assemble(source)
Assemble ==
    /\ asm = NotAssembled
    /\ asm' = assemble(source)
    /\ UNCHANGED <<source, pretty, program, input, ipos, output, pc, stack, aux,
                   result, overflow_checks, n_in, steps>>

NextAsm == Assemble

SpecAsm == InitAsm /\ [][NextAsm]_vars

\* the symbolic programs pretty_print is applied to: any instruction (every
\* opcode with every kind of label and operand) followed by at most
\* MaxPrintInsns more, the empty program, and the built-in program
PrintLabels == {"a", "loop"}
PrintValues == {0, 10, 300, 2147483647}
PrintOperands == {[kind |-> "None"]}
                     \cup {[kind |-> "Value", value |-> v] : v \in PrintValues}
                     \cup {[kind |-> "Target", label |-> l] : l \in PrintLabels}
PrintInsns == [label : {None} \cup {Some(l) : l \in PrintLabels},
               opcode : In .. Ble,
               operand : PrintOperands]
PrintTail == {Insn_new(Exit), set_value(Insn_new(Push), 4),
              set_label(set_target(Insn_new(Jmp), "a"), "a")}
PrintSources ==
    {<<>>, DECRYPTER}
        \cup {<<i>> \o s : i \in PrintInsns,
                           s \in UNION {[1 .. k -> PrintTail] : k \in 0 .. MaxPrintInsns}}

InitPrint ==
    /\ source \in PrintSources
    /\ asm = NotAssembled
    /\ pretty = NotPrinted
    /\ input = <<>>
    /\ overflow_checks \in {FALSE}
    /\ VmIdle

\* a call of pretty_print(source)
PrettyPrint ==
    /\ pretty = NotPrinted
    /\ pretty' = pretty_print(source)
    /\ UNCHANGED <<source, asm, program, input, ipos, output, pc, stack, aux,
                   result, overflow_checks, n_in, steps>>

NextPrint == PrettyPrint

SpecPrint == InitPrint /\ [][NextPrint]_vars

\* ------------------------------------------------------------- interpreter

\* Vec::pop: None on an empty vector
pop(s) ==
    IF s = <<>> THEN [some |-> FALSE, rest |-> s]
    ELSE [some |-> TRUE, value |-> s[Len(s)], rest |-> SubSeq(s, 1, Len(s) - 1)]

\* an iterator that ends one character early
next_char_short(inp, pos) == IF pos + 1 < Len(inp) THEN W(inp[pos + 1]) ELSE W(0)
\* input_chars.next().map_or(0, |ch| ch as u32) with pos characters consumed
next_char(inp, pos) == IF pos < Len(inp) THEN W(inp[pos + 1]) ELSE W(0)
\* the iterator after that call: it stays at the end once the end is reached
\* an iterator that is drained by its first next()
advance_all(inp, pos) == IF pos < Len(inp) THEN Len(inp) ELSE pos
advance(inp, pos) == IF pos < Len(inp) THEN pos + 1 ELSE pos

\* the condition of a branch on zero
is_zero(top) == top = W(0)
\* the condition of Bne: `top != 0`
is_nonzero(top) == top # W(0)

\* program[i] in bounds
InBounds(i) == i < Len(program)
\* program[i]
Byte(i) == program[i + 1]

\* the loop is at `let opcode = self.program[self.pc]` and the byte is there
Fetching == result = Running /\ steps < MaxSteps /\ InBounds(pc)
\* ... and the decoded opcode is op
Fetched(op) == Fetching /\ try_from(Byte(pc)) = [tag |-> "Ok", opcode |-> op]

Err(cause) == [tag |-> "Err", cause |-> cause]
Panic(cause) == [tag |-> "Panic", cause |-> cause]

\* what one iteration leaves: the program counter, the stack and the outcome
Leave(npc, nstack, nresult) ==
    pc' = npc /\ stack' = nstack /\ result' = nresult /\ steps' = steps + 1

Fixed == <<source, asm, pretty, program, input, overflow_checks>>

\* self.program[self.pc] with pc past the end: the index panics
run_fetch_panic ==
    /\ result = Running /\ steps < MaxSteps /\ ~InBounds(pc)
    /\ Leave(pc, stack, Panic("index out of bounds"))
    /\ UNCHANGED <<Fixed, ipos, output, aux, n_in>>

\* Opcode::try_from(opcode)? on a byte that is no opcode
run_invalid ==
    /\ Fetching /\ try_from(Byte(pc)).tag = "Err"
    /\ Leave(pc, stack, Err(try_from(Byte(pc)).cause))
    /\ UNCHANGED <<Fixed, ipos, output, aux, n_in>>

\* Opcode::Exit => break, then Ok(self.output.clone())
run_Exit ==
    /\ Fetched(Exit)
    /\ Leave(pc, stack, [tag |-> "Ok", text |-> output])
    /\ UNCHANGED <<Fixed, ipos, output, aux, n_in>>

run_In ==
    /\ Fetched(In)
    /\ Len(stack) < MaxStack
    /\ Leave(pc + 1, Append(stack, next_char(input, ipos)), Running)
    /\ ipos' = advance(input, ipos)
    /\ n_in' = IF n_in < Len(input) + 2 THEN n_in + 1 ELSE n_in
    /\ UNCHANGED <<Fixed, output, aux>>

run_Out ==
    /\ Fetched(Out)
    /\ Len(output) < MaxOutput
    /\ LET top == pop(stack)
       IN  IF ~top.some
           THEN Leave(pc, top.rest, Err("pop")) /\ output' = output
           ELSE IF ~IsScalar(top.value)
           THEN Leave(pc, top.rest, Err("converting code point")) /\ output' = output
           ELSE /\ Leave(pc + 1, top.rest, Running)
                /\ output' = Append(output, CodePoint(top.value))
    /\ UNCHANGED <<Fixed, ipos, aux, n_in>>

run_Jmp ==
    /\ Fetched(Jmp)
    /\ IF InBounds(pc + 1)
       THEN Leave(Byte(pc + 1), stack, Running)
       ELSE Leave(pc, stack, Panic("index out of bounds"))
    /\ UNCHANGED <<Fixed, ipos, output, aux, n_in>>

run_Dup ==
    /\ Fetched(Dup)
    /\ Len(stack) < MaxStack
    /\ IF stack = <<>>
       THEN Leave(pc, stack, Err("duplicating stack"))
       ELSE Leave(pc + 1, Append(stack, stack[Len(stack)]), Running)
    /\ UNCHANGED <<Fixed, ipos, output, aux, n_in>>

run_Bne ==
    /\ Fetched(Bne)
    /\ LET top == pop(stack)
       IN  IF ~top.some THEN Leave(pc, top.rest, Err("pop"))
           ELSE IF ~is_nonzero(top.value) THEN Leave(pc + 2, top.rest, Running)
           ELSE IF InBounds(pc + 1) THEN Leave(Byte(pc + 1), top.rest, Running)
           ELSE Leave(pc, top.rest, Panic("index out of bounds"))
    /\ UNCHANGED <<Fixed, ipos, output, aux, n_in>>

\* the closure each branch arm hands to branch_if
cmp(op, l, r) ==
    CASE op = Bgt -> WGt(l, r)
      [] op = Blt -> WLt(l, r)
      [] op = Ble -> WLe(l, r)

\* a branch_if that pops the left operand only once the branch is taken
branch_if_peek(op) ==
    LET rhs == pop(stack)
        lhs == pop(rhs.rest)
    IN  IF ~rhs.some THEN Leave(pc, rhs.rest, Err("pop"))
        ELSE IF ~lhs.some THEN Leave(pc, lhs.rest, Err("pop"))
        ELSE IF ~cmp(op, lhs.value, rhs.value) THEN Leave(pc + 2, rhs.rest, Running)
        ELSE IF InBounds(pc + 1) THEN Leave(Byte(pc + 1), lhs.rest, Running)
        ELSE Leave(pc, lhs.rest, Panic("index out of bounds"))
\* Vm::branch_if, called with the closure of arm op
branch_if(op) ==
    LET rhs == pop(stack)
        lhs == pop(rhs.rest)
    IN  IF ~rhs.some THEN Leave(pc, rhs.rest, Err("pop"))
        ELSE IF ~lhs.some THEN Leave(pc, lhs.rest, Err("pop"))
        ELSE IF ~cmp(op, lhs.value, rhs.value) THEN Leave(pc + 2, lhs.rest, Running)
        ELSE IF InBounds(pc + 1) THEN Leave(Byte(pc + 1), lhs.rest, Running)
        ELSE Leave(pc, lhs.rest, Panic("index out of bounds"))

run_Bgt ==
    /\ Fetched(Bgt)
    /\ branch_if(Bgt)
    /\ UNCHANGED <<Fixed, ipos, output, aux, n_in>>

run_Blt ==
    /\ Fetched(Blt)
    /\ branch_if(Blt)
    /\ UNCHANGED <<Fixed, ipos, output, aux, n_in>>

run_Ble ==
    /\ Fetched(Ble)
    /\ branch_if(Ble)
    /\ UNCHANGED <<Fixed, ipos, output, aux, n_in>>

run_Pusha ==
    /\ Fetched(Pusha)
    /\ Len(stack) < MaxStack
    /\ Leave(pc + 1, Append(stack, aux), Running)
    /\ UNCHANGED <<Fixed, ipos, output, aux, n_in>>

run_Push ==
    /\ Fetched(Push)
    /\ Len(stack) < MaxStack
    /\ IF InBounds(pc + 1)
       THEN Leave(pc + 2, Append(stack, W(Byte(pc + 1))), Running)
       ELSE Leave(pc, stack, Panic("index out of bounds"))
    /\ UNCHANGED <<Fixed, ipos, output, aux, n_in>>

\* a Popa that copies the top word and leaves it on the stack
run_Popa_peek ==
    /\ Fetched(Popa)
    /\ LET top == pop(stack)
       IN  IF ~top.some
           THEN Leave(pc, top.rest, Err("pop")) /\ aux' = aux
           ELSE Leave(pc + 1, stack, Running) /\ aux' = top.value
    /\ UNCHANGED <<Fixed, ipos, output, n_in>>

run_Popa ==
    /\ Fetched(Popa)
    /\ LET top == pop(stack)
       IN  IF ~top.some
           THEN Leave(pc, top.rest, Err("pop")) /\ aux' = aux
           ELSE Leave(pc + 1, top.rest, Running) /\ aux' = top.value
    /\ UNCHANGED <<Fixed, ipos, output, n_in>>

\* `lhs + rhs` and `lhs - rhs` on u32: whether the operator overflows, its
\* result when it does not trap, and the panic when it does
overflows(op, l, r) == IF op = Add THEN AddOverflows(l, r) ELSE SubOverflows(l, r)
wrapping(op, l, r) == IF op = Add THEN WrappingAdd(l, r) ELSE WrappingSub(l, r)
overflow_panic(op) ==
    IF op = Add THEN "attempt to add with overflow"
    ELSE "attempt to subtract with overflow"

\* the arms of Add and Sub, which differ in the operator only
arith(op) ==
    LET rhs == pop(stack)
        lhs == pop(rhs.rest)
    IN  IF ~rhs.some THEN Leave(pc, rhs.rest, Err("pop"))
        ELSE IF ~lhs.some THEN Leave(pc, lhs.rest, Err("pop"))
        ELSE IF overflow_checks /\ overflows(op, lhs.value, rhs.value)
        THEN Leave(pc, lhs.rest, Panic(overflow_panic(op)))
        ELSE Leave(pc + 1, Append(lhs.rest, wrapping(op, lhs.value, rhs.value)), Running)

run_Add ==
    /\ Fetched(Add)
    /\ arith(Add)
    /\ UNCHANGED <<Fixed, ipos, output, aux, n_in>>

run_Sub ==
    /\ Fetched(Sub)
    /\ arith(Sub)
    /\ UNCHANGED <<Fixed, ipos, output, aux, n_in>>

\* `_ => todo!()`: the one opcode that decodes and has no arm of its own
run_Beq ==
    /\ Fetched(Beq)
    /\ Leave(pc, stack, Panic("not yet implemented"))
    /\ UNCHANGED <<Fixed, ipos, output, aux, n_in>>

\* one iteration of the loop of Vm::run
Next ==
    \/ run_fetch_panic
    \/ run_invalid
    \/ run_Exit
    \/ run_In
    \/ run_Out
    \/ run_Jmp
    \/ run_Dup
    \/ run_Bne
    \/ run_Bgt
    \/ run_Blt
    \/ run_Ble
    \/ run_Pusha
    \/ run_Push
    \/ run_Popa
    \/ run_Add
    \/ run_Sub
    \/ run_Beq

\* ------------------------------------------- interpreter: the runs checked

\* programs of the specification's scenarios and of the opcode table
DupExit == <<Dup, Exit>>
PushOut == <<Push, 97, Out, Exit>>
BltDemo == <<Push, 3, Push, 5, Blt, 9, Push, 0, Exit, Push, 1, Exit>>
BeqDemo == <<Push, 1, Push, 1, Beq, 7, Exit, Exit>>
SumOut == <<In, In, Add, Out, Exit>>
NegOut == <<Pusha, In, Sub, Out, Exit>>
Echo == <<In, Dup, Bne, 5, Exit, Out, Jmp, 0>>
OutTwice == <<In, Dup, Out, Dup, Add, Out, Exit>>
WrapTwice == <<Pusha, In, Sub, Dup, Add, Popa, Exit>>
BltWrapped == <<Pusha, In, Sub, In, Blt, 7, Exit, Exit>>
Scenarios == {DupExit, PushOut, BltDemo, BeqDemo, SumOut, NegOut, Echo, OutTwice,
              WrapTwice, BltWrapped,
              assemble(DECRYPTER).bytes}

\* a program with one byte replaced
Patched(p) == {[p EXCEPT ![i] = b] : i \in 1 .. Len(p), b \in 0 .. MaxByte}
Programs == Scenarios \cup UNION {Patched(p) : p \in Scenarios}

\* 'a', and a character whose double is no scalar value (0x6C00 + 0x6C00 = 0xD800)
InputChars == {97, 27648}
Inputs == UNION {[1 .. k -> InputChars] : k \in 0 .. MaxInputLen}

\* the state Vm::new builds
VmNew ==
    /\ ipos = 0 /\ output = <<>> /\ pc = 0 /\ stack = <<>> /\ aux = W(0)
    /\ result = Running /\ n_in = 0 /\ steps = 0

\* run(program, input) for a non-empty program
Init ==
    /\ source = <<>>
    /\ asm = NotAssembled
    /\ pretty = NotPrinted
    /\ program \in Programs
    /\ input \in Inputs
    /\ overflow_checks \in BOOLEAN
    /\ VmNew

Spec == Init /\ [][Next]_vars

\* ------------------------------------------------- main: the built-in program

\* lowercase letters on both sides of the first comparison of DECRYPTER
\* ('a', 'v' with 'v' + 4 = 'z', and 'z', which any key but 0 takes past 'z')
Letters == {97, 118, 122}
\* every text of at most MaxTextLen letters, alone and after LongText letters
\* 'm' (which take the auxiliary register from 4 through 25 and back to 0)
Texts == {[i \in 1 .. n |-> 109] \o t :
              n \in {0, LongText},
              t \in UNION {[1 .. k -> Letters] : k \in 0 .. MaxTextLen}}

\* main after `let bytecode = assemble(DECRYPTER)?` and the reading of the file
InitMain ==
    /\ source = DECRYPTER
    /\ asm = assemble(DECRYPTER)
    /\ pretty = NotPrinted
    /\ input \in Texts
    /\ overflow_checks \in BOOLEAN
    /\ VmIdle

\* run(&bytecode, &cipher): Vm::new on the assembled bytes
main_run ==
    /\ asm.tag = "Ok" /\ result = NotStarted
    /\ program' = asm.bytes
    /\ result' = Running
    /\ UNCHANGED <<source, asm, pretty, input, ipos, output, pc, stack, aux,
                   overflow_checks, n_in, steps>>

\* vm.run(): the loop, on the program main handed over
vm_run ==
    /\ asm.tag = "Ok"
    /\ Next

NextMain == main_run \/ vm_run

\* main is sequential and runs every call to its end
SpecMain == InitMain /\ [][NextMain]_vars /\ WF_vars(NextMain)

\* main on any file: the end-of-input sentinel as a character, an uppercase
\* letter, 'z', a character that key 4 decodes to the surrogate 0xD800, and
\* the last scalar value, alone and after LongText letters
AnyChars == {0, 65, 122, 55318, 1114111}
AnyTexts == {[i \in 1 .. n |-> 109] \o t :
                 n \in {0, LongText},
                 t \in UNION {[1 .. k -> AnyChars] : k \in 0 .. MaxTextLen}}

InitMainAny ==
    /\ source = DECRYPTER
    /\ asm = assemble(DECRYPTER)
    /\ pretty = NotPrinted
    /\ input \in AnyTexts
    /\ overflow_checks \in BOOLEAN
    /\ VmIdle

SpecMainAny == InitMainAny /\ [][NextMain]_vars

\* ------------------------------------- assemble, then run: the runs checked

\* symbolic programs of the specification's scenarios and of the opcode table
PushOutSource == <<
    set_value(Insn_new(Push), 97),
    Insn_new(Out),
    Insn_new(Exit) >>
BltDemoSource == <<
    set_value(Insn_new(Push), 3),
    set_value(Insn_new(Push), 5),
    set_target(Insn_new(Blt), "t"),
    set_value(Insn_new(Push), 0),
    Insn_new(Exit),
    set_label(set_value(Insn_new(Push), 1), "t"),
    Insn_new(Exit) >>
BeqDemoSource == <<
    set_value(Insn_new(Push), 1),
    set_value(Insn_new(Push), 1),
    set_target(Insn_new(Beq), "t"),
    Insn_new(Exit),
    set_label(Insn_new(Exit), "t") >>
EchoSource == <<
    set_label(Insn_new(In), "loop"),
    Insn_new(Dup),
    set_target(Insn_new(Bne), "t"),
    Insn_new(Exit),
    set_label(Insn_new(Out), "t"),
    set_target(Insn_new(Jmp), "loop") >>
SumSource == <<
    Insn_new(In),
    Insn_new(Pusha),
    Insn_new(Add),
    Insn_new(Dup),
    Insn_new(Popa),
    Insn_new(In),
    Insn_new(Sub),
    Insn_new(Out),
    Insn_new(Exit) >>
PipeScenarios == {PushOutSource, BltDemoSource, BeqDemoSource, EchoSource, SumSource}

\* what an instruction can be replaced by: every opcode with the operand its
\* arm in Vm::run reads (an immediate of one byte or of more), and two
\* instructions whose operand is not the one the arm reads
PipeInsns ==
    {Insn_new(op) : op \in {In, Out, Dup, Add, Sub, Exit, Pusha, Popa}}
        \cup {set_value(Insn_new(Push), v) : v \in {97, 300}}
        \cup {set_target(Insn_new(op), "t") : op \in {Jmp, Bne, Blt, Bgt, Ble, Beq}}
        \cup {Insn_new(Push), set_value(Insn_new(In), 4)}
\* a symbolic program with one instruction replaced, its label kept
Replaced(src) ==
    {[src EXCEPT ![i] = [x EXCEPT !.label = src[i].label]] :
         i \in 1 .. Len(src), x \in PipeInsns}
PipeSources == PipeScenarios \cup UNION {Replaced(src) : src \in PipeScenarios}

\* run(&assemble(source)?, input)
InitPipe ==
    /\ source \in PipeSources
    /\ asm = assemble(source)
    /\ pretty = NotPrinted
    /\ input \in Inputs
    /\ overflow_checks \in BOOLEAN
    /\ VmIdle

SpecPipe == InitPipe /\ [][NextMain]_vars

\* ------------------------------------------------------- claims: assemble

\* the instructions of src that carry label l
Definitions(src, l) == {j \in 1 .. Len(src) : src[j].label = Some(l)}
\* the instructions of src whose operand is a target
References(src) == {i \in 1 .. Len(src) : src[i].operand.kind = "Target"}
\* the byte offset of the opcode byte of instruction i: the encoded sizes of
\* the instructions before it, 1 byte each and 1 more for each operand
OffsetOf(src, i) ==
    (i - 1) + Cardinality({j \in 1 .. i - 1 : src[j].operand.kind # "None"})
\* every referenced label has exactly one definition
UniquelyLabelled(src) ==
    \A i \in References(src) : Cardinality(Definitions(src, src[i].operand.label)) = 1
\* some target names a label no instruction defines
HasUndefinedReference(src) ==
    \E i \in References(src) : Definitions(src, src[i].operand.label) = {}

\* C1: for every symbolic program in which every referenced label has exactly
\* one definition, assemble succeeds, the bytes are as many as the encoded
\* sizes of the instructions sum to, and every target operand byte equals the
\* byte offset of the opcode byte of the instruction carrying its label.
C1_AssembleResolvesEveryLabel ==
    (asm # NotAssembled /\ UniquelyLabelled(source)) =>
        /\ asm.tag = "Ok"
        /\ Len(asm.bytes) = OffsetOf(source, Len(source) + 1)
        /\ \A i \in References(source) :
               \A j \in Definitions(source, source[i].operand.label) :
                   asm.bytes[OffsetOf(source, i) + 2] = OffsetOf(source, j)

\* C2: if some target operand names a label that no instruction defines,
\* assemble fails with the lookup error and returns no bytecode, wherever the
\* unresolved reference sits.
C2_UndefinedLabelFails ==
    (asm # NotAssembled /\ HasUndefinedReference(source)) =>
        /\ asm = [tag |-> "Err", cause |-> "look up label"]
        /\ "bytes" \notin DOMAIN asm

\* C2's case: assemble has failed on a program whose first target resolves
\* (its byte was patched) and whose later target does not
C2_Witness ==
    /\ asm.tag = "Err"
    /\ \E i, k \in References(source) :
          /\ i < k
          /\ Definitions(source, source[i].operand.label) # {}
          /\ Definitions(source, source[k].operand.label) = {}

\* ---------------------------------------------------- claims: interpreter

\* the word on top of the stack, and the one below it
Top == stack[Len(stack)]
Below == stack[Len(stack) - 1]
\* the stack without its n topmost words
Without(n) == SubSeq(stack, 1, Len(stack) - n)

\* C3: a run starts at pc 0 and stops in two ways only: by executing Exit,
\* returning the accumulated output, or by returning a runtime error value
\* (invalid opcode, stack underflow, invalid code point) to the caller.
C3_RunStopsByExitOrError ==
    /\ (steps = 0 /\ result = Running) => pc = 0
    /\ result.tag \in {"Running", "Ok", "Err"}
    /\ result.tag = "Ok" => (Byte(pc) = Exit /\ result.text = output)
    /\ result.tag = "Err" =>
           result.cause \in {"invalid opcode", "pop", "duplicating stack",
                             "converting code point"}

\* C4: whenever the byte fetched at pc is outside 0..14, run fails with the
\* invalid-opcode error at that instruction: the caller receives the error
\* and no output text, and no further instruction executes.
C4_InvalidOpcodeFails ==
    [][/\ result.tag # "Err"
       /\ (InBounds(pc) /\ Byte(pc) \notin 0 .. 14) =>
              /\ result' = [tag |-> "Err", cause |-> "invalid opcode"]
              /\ "text" \notin DOMAIN result'
              /\ <<pc, stack, aux, output, ipos>>' = <<pc, stack, aux, output, ipos>>]_vars

\* C4's case: byte 15 was fetched after an instruction had written output
C4_Witness ==
    /\ result = [tag |-> "Err", cause |-> "invalid opcode"]
    /\ Byte(pc) = 15
    /\ output # <<>>

\* the instruction at pc needs more words than the stack holds
Underflows ==
    /\ InBounds(pc)
    /\ \/ Byte(pc) \in {Dup, Out, Popa, Bne} /\ Len(stack) = 0
       \/ Byte(pc) \in {Add, Sub, Blt, Bgt, Ble, Beq} /\ Len(stack) < 2

\* C5: whenever Dup, Out, Popa or Bne executes with an empty stack, or Add,
\* Sub, Blt, Bgt, Ble or Beq with fewer than two words, run fails with a
\* stack-underflow error: execution halts at that instruction, it is no
\* no-op, and the caller receives no output text.
C5_UnderflowFails ==
    [][(result = Running /\ Underflows) =>
           /\ result'.tag = "Err"
           /\ result'.cause \in {"pop", "duplicating stack"}
           /\ "text" \notin DOMAIN result'
           /\ pc' = pc /\ output' = output]_vars

\* C6: Out pops the top word and appends exactly the one character whose code
\* point is that word; if the word is in 0xD800..0xDFFF or above 0x10FFFF,
\* run fails at that instruction and nothing is appended.
C6_OutAppendsOrFails ==
    [][(result = Running /\ InBounds(pc) /\ Byte(pc) = Out /\ stack # <<>>) =>
           /\ stack' = Without(1)
           /\ IF Top[1] = 0 /\ (Top[2] < 55296 \/ Top[2] > 57343)
              THEN result' = Running /\ output' = Append(output, Top[2])
              ELSE IF Top[1] >= 1 /\ Top[1] <= 16
              THEN result' = Running /\ output' = Append(output, Top[1] * 65536 + Top[2])
              ELSE /\ result' = [tag |-> "Err", cause |-> "converting code point"]
                   /\ output' = output /\ pc' = pc]_vars

\* C6's case: Out has failed on a surrogate (0x6C00 doubled)
C6_Witness ==
    /\ result = [tag |-> "Err", cause |-> "converting code point"]
    /\ Byte(pc) = Out
    /\ input # <<>> /\ input[1] = 27648
    /\ output # <<>>

\* C7: for an input of n characters, the k-th In executed pushes the code
\* point of the k-th character when k <= n and 0 when k > n; In never fails,
\* also once the input is exhausted.
C7_InReadsInOrderThenZero ==
    [][(result = Running /\ InBounds(pc) /\ Byte(pc) = In) =>
           /\ result' = Running
           /\ pc' = pc + 1
           /\ stack' = Append(stack, IF n_in' <= Len(input)
                                     THEN W(input[n_in']) ELSE W(0))]_vars

\* C7's case: with a non-empty input, In has run twice past its end
C7_Witness ==
    /\ result = Running
    /\ Len(input) >= 1
    /\ n_in = Len(input) + 2
    /\ Len(stack) >= 2 /\ Top = W(0) /\ Below = W(0)

\* C8: Beq with at least two words on the stack pops Y then X, sets pc to the
\* operand byte if X = Y and advances pc by 2 otherwise, and the run goes on;
\* so every opcode that decodes has an execution step.
C8_BeqBranchesOnEqual ==
    [][(result = Running /\ InBounds(pc + 1) /\ Byte(pc) = Beq /\ Len(stack) >= 2) =>
           /\ result' = Running
           /\ stack' = Without(2)
           /\ pc' = IF Below = Top THEN Byte(pc + 1) ELSE pc + 2]_vars

\* ------------------------------------------------ claims: built-in program

IsLower(c) == c \in 97 .. 122
\* letter c moved k places forward, and back, in the alphabet, wrapping around
ShiftForward(c, k) == 97 + ((c - 97 + k) % 26)
ShiftBack(c, k) == 97 + ((c - 97 + 26 - (k % 26)) % 26)
\* the run of the built-in program is over
Returned == result.tag \notin {"NotStarted", "Running"}

\* C9 as stated: for every plaintext of lowercase letters, the run on the
\* text obtained by shifting each letter forward by 4 (wrapping past 'z')
\* returns exactly the plaintext.
C9_DecodesFixedShift ==
    Returned =>
        /\ result.tag = "Ok"
        /\ Len(result.text) = Len(input)
        /\ \A i \in 1 .. Len(input) :
               IsLower(result.text[i]) /\ ShiftForward(result.text[i], 4) = input[i]

\* C9 as amended: for every plaintext of lowercase letters, the run on the
\* text obtained by shifting the i-th letter (i = 0, 1, ...) back by
\* (4 + i) mod 26 places (wrapping before 'a' to 'z') returns exactly the
\* plaintext.
C9_DecodesRollingShift ==
    Returned =>
        /\ result.tag = "Ok"
        /\ Len(result.text) = Len(input)
        /\ \A i \in 1 .. Len(input) :
               IsLower(result.text[i]) /\ ShiftBack(result.text[i], 4 + (i - 1)) = input[i]

\* C9's case: a run has returned a text longer than the key's cycle from 4,
\* one letter of which was wrapped past 'z'
C9_Witness ==
    /\ result.tag = "Ok"
    /\ Len(result.text) > LongText
    /\ \E i \in 1 .. Len(result.text) : i > LongText /\ result.text[i] < input[i]

\* offsets of the `loop` label and of Exit in the assembled program
LoopOffset == OffsetOf(DECRYPTER, 3)
ExitOffset == OffsetOf(DECRYPTER, 6)

\* C10: for every input of lowercase letters the run of the built-in program
\* eventually reaches Exit, and is at Exit exactly when In has returned the
\* end-of-input sentinel and the Dup and Bne after it have run without
\* branching: never before every character was read, and no instruction
\* executes after it.
C10_ExitsExactlyAtEndOfInput ==
    /\ <>(result.tag = "Ok")
    /\ [](result = Running =>
            /\ pc = ExitOffset <=>
                   (n_in = Len(input) + 1 /\ pc \notin {LoopOffset + 1, LoopOffset + 2})
            /\ pc = ExitOffset => (ipos = Len(input) /\ stack # <<>> /\ Top = W(0)))
    /\ [](result.tag = "Ok" => (pc = ExitOffset /\ n_in = Len(input) + 1))
    /\ [][result.tag # "Ok"]_vars

\* C10's case: the run is at Exit after an input longer than the key's cycle
C10_Witness ==
    /\ result = Running
    /\ pc = ExitOffset
    /\ Len(input) > LongText

\* ------------------------------------------------------ claims: pretty_print

\* the positions of the line terminators of text
Newlines(text) == {k \in 1 .. Len(text) : text[k] = "\n"}
\* line i of text, without its terminator
Line(text, i) ==
    LET ends == Newlines(text)
        last == CHOOSE k \in ends : Cardinality({j \in ends : j <= k}) = i
        first == IF i = 1 THEN 1
                 ELSE 1 + CHOOSE k \in ends : Cardinality({j \in ends : j <= k}) = i - 1
    IN  SubSeq(text, first, last - 1)
\* the number a sequence of digits denotes
RECURSIVE DecimalValue(_)
DecimalValue(ds) ==
    IF ds = <<>> THEN 0
    ELSE Len(Digits) * DecimalValue(SubSeq(ds, 1, Len(ds) - 1))
             + (CHOOSE d \in 0 .. Len(Digits) - 1 : Digits[d + 1] = ds[Len(ds)])
\* ds is the decimal literal of n
IsDecimalOf(ds, n) ==
    /\ ds # <<>>
    /\ \A k \in 1 .. Len(ds) : \E d \in 0 .. Len(Digits) - 1 : Digits[d + 1] = ds[k]
    /\ Len(ds) > 1 => ds[1] # "0"
    /\ DecimalValue(ds) = n
\* line is the line of insn
IsLineOf(line, insn) ==
    LET prefix == IF insn.label = None THEN << "\t" >>
                  ELSE << insn.label[1], ":", "\t" >>
        n == Len(prefix)
        rest == SubSeq(line, n + 2, Len(line))
    IN  /\ Len(line) >= n + 1
        /\ SubSeq(line, 1, n) = prefix
        /\ line[n + 1] = fmt_Debug(insn.opcode)
        /\ insn.operand.kind = "None" => rest = <<>>
        /\ insn.operand.kind = "Target" => rest = << " ", insn.operand.label >>
        /\ insn.operand.kind = "Value" =>
               /\ Len(rest) >= 2 /\ rest[1] = " "
               /\ IsDecimalOf(Tail(rest), insn.operand.value)

\* C11: pretty_print always succeeds; its text is one newline-terminated line
\* per instruction, in program order, and line i is the label of
\* instruction i with ':' and a tab (or a bare tab), the opcode name, and for
\* an operand a space and the label name or the decimal literal
C11_PrettyPrintLinePerInsn ==
    pretty # NotPrinted =>
        /\ pretty.tag = "Ok"
        /\ Cardinality(Newlines(pretty.text)) = Len(source)
        /\ pretty.text # <<>> => pretty.text[Len(pretty.text)] = "\n"
        /\ \A i \in 1 .. Len(source) : IsLineOf(Line(pretty.text, i), source[i])
\* a labelled instruction with a three-digit immediate, then an unlabelled
\* one, then one with a target, have been printed
C11_Witness ==
    /\ pretty.tag = "Ok" /\ Len(source) = 3
    /\ source[1].label # None
    /\ source[1].operand = [kind |-> "Value", value |-> 300]
    /\ source[2] = Insn_new(Exit)
    /\ source[3].operand.kind = "Target"

\* ------------------------------------------------------- claims: branches

\* the instruction about to execute is op
Executing(op) == result = Running /\ steps < MaxSteps /\ InBounds(pc) /\ Byte(pc) = op

UnsignedLess(x, y) == x[1] < y[1] \/ (x[1] = y[1] /\ x[2] < y[2])
\* the condition of the specification's table for op, X below Y
Holds(op, X, Y) ==
    CASE op = Blt -> UnsignedLess(X, Y)
      [] op = Bgt -> UnsignedLess(Y, X)
      [] op = Ble -> ~UnsignedLess(Y, X)

\* C13: for Blt, Bgt and Ble with Y on top and X below, compared as unsigned
\* 32-bit values, the next pc is the operand byte at pc+1 exactly when X<Y,
\* X>Y or X<=Y holds, and pc+2 otherwise; for Bne the next pc is the operand
\* byte when the popped word is non-zero and pc+2 otherwise; and the run of
\* `Push 3; Push 5; Blt target; Push 0; Exit; target: Push 1; Exit` halts at
\* the Exit after `target` with 1 on top of the stack.
C13_BranchTargets ==
    /\ [][\A op \in {Blt, Bgt, Ble} :
              (Executing(op) /\ Len(stack) >= 2 /\ InBounds(pc + 1)) =>
                  /\ result' = Running
                  /\ pc' = IF Holds(op, Below, Top) THEN Byte(pc + 1) ELSE pc + 2]_vars
    /\ [][(Executing(Bne) /\ Len(stack) >= 1 /\ InBounds(pc + 1)) =>
              /\ result' = Running
              /\ pc' = IF Top # W(0) THEN Byte(pc + 1) ELSE pc + 2]_vars
    /\ [](program = BltDemo /\ Returned =>
              /\ result.tag = "Ok"
              /\ pc = Len(BltDemo) - 1
              /\ Top = W(1))
\* the scenario has halted at its last Exit with 1 on top
C13_Witness ==
    /\ program = BltDemo /\ result.tag = "Ok"
    /\ pc = Len(BltDemo) - 1 /\ stack = <<W(1)>>

\* ----------------------------------------------------- claims: arithmetic

\* z is a 32-bit unsigned word
IsWord(z) == z[1] \in 0 .. Limb - 1 /\ z[2] \in 0 .. Limb - 1
\* z = x + y modulo 2^32, by carries
IsSum32(z, x, y) ==
    \E c, k \in {0, 1} :
        /\ x[2] + y[2] = z[2] + c * Limb
        /\ x[1] + y[1] + c = z[1] + k * Limb
\* the word the specification's table gives for op, X below Y
IsResult(op, z, X, Y) ==
    IsWord(z) /\ IF op = Add THEN IsSum32(z, X, Y) ELSE IsSum32(X, z, Y)

\* C14: with at least two words on the stack (Y on top, X below), Add
\* replaces them by X+Y and Sub by X-Y computed as a 32-bit unsigned word and
\* the run continues at pc+1, for all operand values including
\* X+Y > 2^32-1 and X < Y; every stack word and the auxiliary register are
\* within 0 .. 2^32-1 in every reachable state.
C14_AddSubWrap ==
    /\ [][\A op \in {Add, Sub} :
              (Executing(op) /\ Len(stack) >= 2) =>
                  /\ result' = Running
                  /\ pc' = pc + 1
                  /\ Len(stack') = Len(stack) - 1
                  /\ SubSeq(stack', 1, Len(stack) - 2) = Without(2)
                  /\ IsResult(op, stack'[Len(stack')], Below, Top)]_vars
    /\ [](IsWord(aux) /\ \A k \in 1 .. Len(stack) : IsWord(stack[k]))

\* --------------------------------------------- claims: assemble, then run

\* instruction i of the symbolic program is about to execute
AtInsn(i) ==
    /\ result = Running /\ steps < MaxSteps
    /\ i \in 1 .. Len(source) /\ pc = OffsetOf(source, i)
\* the instructions `Push v`
PushLiterals == {i \in 1 .. Len(source) :
                     source[i].opcode = Push /\ source[i].operand.kind = "Value"}

\* C15: for every symbolic instruction Push with immediate literal v,
\* assemble emits v itself as the operand byte, and executing that Push pushes
\* exactly v as a 32-bit word and advances pc by 2; the assembled
\* `Push 97; Out; Exit` returns "a" for every input.
C15_PushPushesItsLiteral ==
    /\ [](asm.tag = "Ok" =>
              \A i \in PushLiterals :
                  asm.bytes[OffsetOf(source, i) + 2] = source[i].operand.value)
    /\ [][\A i \in PushLiterals :
              AtInsn(i) =>
                  /\ result' = Running
                  /\ stack' = Append(stack, W(source[i].operand.value))
                  /\ pc' = pc + 2]_vars
    /\ [](source = PushOutSource /\ Returned => result = [tag |-> "Ok", text |-> <<97>>])

\* the number of bytes the specification's table gives an opcode
EncodedSize(op) == IF op \in {Push, Jmp, Bne, Blt, Bgt, Ble, Beq} THEN 2 ELSE 1
\* the offset of instruction i when every instruction has the size of its opcode
RECURSIVE SizedOffset(_, _)
SizedOffset(src, i) ==
    IF i = 1 THEN 0 ELSE SizedOffset(src, i - 1) + EncodedSize(src[i - 1].opcode)
\* the offsets of the opcode bytes of the assembled program
OpcodeOffsets == {OffsetOf(source, i) : i \in 1 .. Len(source)}
\* the step leaves the instruction without jumping
FallsThrough(op) ==
    \/ op \in {In, Out, Dup, Add, Sub, Pusha, Popa, Push} /\ result' = Running
    \/ op = Bne /\ Len(stack) >= 1 /\ Top = W(0)
    \/ op \in {Blt, Bgt, Ble} /\ Len(stack) >= 2 /\ ~Holds(op, Below, Top)
    \/ op = Beq /\ Len(stack) >= 2 /\ Below # Top

\* C16: for every opcode, the number of bytes assemble emits for an
\* instruction with that opcode equals the number of bytes the interpreter
\* consumes when executing it without jumping (2 for Push, Jmp, Bne, Blt, Bgt,
\* Ble and Beq, 1 for the others); so in any assembled program every label
\* offset and every fall-through pc is the offset of an opcode byte.
C16_EmittedSizeIsConsumedSize ==
    /\ [](asm.tag = "Ok" =>
              /\ Len(asm.bytes) = SizedOffset(source, Len(source) + 1)
              /\ \A i \in 1 .. Len(source) :
                     /\ OffsetOf(source, i) = SizedOffset(source, i)
                     /\ asm.bytes[OffsetOf(source, i) + 1] = source[i].opcode
                     /\ source[i].operand.kind = "Target" =>
                            asm.bytes[OffsetOf(source, i) + 2] \in OpcodeOffsets)
    /\ [][\A i \in 1 .. Len(source) :
              (AtInsn(i) /\ FallsThrough(source[i].opcode)) =>
                  /\ result' = Running
                  /\ pc' = pc + EncodedSize(source[i].opcode)
                  /\ i < Len(source) => pc' = OffsetOf(source, i + 1)]_vars

\* ------------------------------------------------- claims: frame conditions

\* C17: across any sequence of executed instructions, the code bytes are
\* never modified; the auxiliary register changes only when Popa executes
\* (initially 0); the output changes only when Out executes, and then only by
\* appending one character; the input cursor advances only when In executes,
\* by one character.
C17_FrameEffects ==
    /\ [](steps = 0 => (aux = W(0) /\ output = <<>> /\ ipos = 0))
    /\ [][/\ program' = program /\ input' = input
          /\ aux' # aux => Executing(Popa)
          /\ output' # output =>
                 /\ Executing(Out)
                 /\ Len(output') = Len(output) + 1
                 /\ SubSeq(output', 1, Len(output)) = output
          /\ ipos' # ipos => (Executing(In) /\ ipos' = ipos + 1)]_vars
\* a run has read a character, written one, and loaded the register
C17_Witness ==
    /\ result.tag = "Ok"
    /\ ipos > 0 /\ output # <<>> /\ aux # W(0)

\* ------------------------------------------------ claims: duplicate labels

\* some label is carried by more than one instruction
HasDuplicateLabel(src) ==
    \E i, j \in 1 .. Len(src) : i < j /\ src[i].label # None /\ src[i].label = src[j].label
\* the last instruction in program order that carries label l
LastDefinition(src, l) ==
    CHOOSE j \in Definitions(src, l) : \A k \in Definitions(src, l) : k <= j

\* C18: when the same label name is defined on more than one instruction,
\* assemble does not fail, and every target operand referencing that label,
\* before, between or after the definitions, is resolved to the byte offset
\* of the last instruction in program order that carries the label.
C18_LastDefinitionWins ==
    (asm # NotAssembled /\ HasDuplicateLabel(source) /\ ~HasUndefinedReference(source)) =>
        /\ asm.tag = "Ok"
        /\ \A i \in References(source) :
               asm.bytes[OffsetOf(source, i) + 2]
                   = OffsetOf(source, LastDefinition(source, source[i].operand.label))

\* --------------------------------- claims: invariants of the built-in program

\* C19: in every reachable state of a run of the built-in program on any
\* input, the auxiliary register holds a value in 0 .. 25: it is 4 after the
\* initial Push/Popa, is incremented by 1 per input character processed, and
\* is reset to 0 instead of reaching 26.
C19_AuxBelow26 ==
    /\ aux[1] = 0 /\ aux[2] \in 0 .. 25
    /\ (result = Running /\ pc = LoopOffset) => aux = W((4 + ipos) % 26)
\* the register has been reset: the run is back at `loop` with key 0
C19_Witness ==
    /\ result = Running /\ pc = LoopOffset
    /\ ipos > 0 /\ aux = W(0)

\* C20 as stated: in every run of the built-in program, the data stack is
\* empty each time execution arrives at the `loop` label (on the first
\* arrival and after both the `Popa; Jmp loop` path and the `wrap` path).
C20_StackEmptyAtLoop ==
    (result = Running /\ pc = LoopOffset) => stack = <<>>

\* C20, amended: each time execution arrives at `loop`, the stack holds one
\* word 26 for every pass through the `wrap` path so far, that is
\* (4 + k) div 26 words after k characters: it is empty on the first arrival
\* and after the `Popa; Jmp loop` path until the key first wraps.
C20_StackAtLoopCountsWraps ==
    (result = Running /\ pc = LoopOffset) =>
        stack = [k \in 1 .. ((4 + ipos) \div 26) |-> W(26)]
\* the run is back at `loop` after the `wrap` path, one word on the stack
C20_Witness ==
    /\ result = Running /\ pc = LoopOffset
    /\ stack = <<W(26)>>

====
